---- MODULE Spec2Model ----
(***************************************************************************)
(* MJPEG multipart streaming loop of wikibird2024/esp_cam.                 *)
(*                                                                         *)
(* The repository holds three firmware programs, each with its own         *)
(* stream_handler:                                                         *)
(*   prog = 1   src/main/main.c, first program   (lines 1-259)             *)
(*   prog = 2   src/main/main.c, second program  (lines 262-515)           *)
(*   prog = 3   src/unnamed/part_000                                       *)
(* The esp_http_server task runs one URI handler at a time, so stream      *)
(* sessions of one boot follow each other; the file-scope statics of       *)
(* program 1 survive from one session to the next.                         *)
(*                                                                         *)
(* Bytes are ASCII codes.  32-bit unsigned clock values are kept as two    *)
(* 16-bit halves [hi, lo], because they wrap modulo 2^32.                  *)
(*                                                                         *)
(* Specifications:                                                         *)
(*   Spec       the stream handlers, from a server that has just come up   *)
(*   FairSpec   Spec with a running handler always taking its next step    *)
(*   LateSpec   the stream handlers after a long uptime, very large frames *)
(*   AgedSpec   the same with millions of frames in the open FPS window    *)
(*   StartSpec  app_main's wait for Wi-Fi and wifi_event_handler,          *)
(*              programs 1 and 2                                           *)
(***************************************************************************)
EXTENDS Integers, Sequences, FiniteSets, TLC

\* ------------------------------------------------------------------ bounds
\* loop iterations the model follows after boot, over all stream sessions
MaxIter == 5

\* lengths (fb->len) of the frames the camera driver may hand out
FrameLens == {7, 1500}
\* time a vTaskDelay may take beyond the requested interval, in ms
Jitter == {0, 5000}
\* clock readings when the server comes up, in ms: zero, and 5536 ms before
\* the 32-bit clock wraps
BootClocks == { [hi |-> 0, lo |-> 0], [hi |-> 65535, lo |-> 60000] }

\* --------------------------------------------------------- program constants
ESP_OK == 0
ESP_FAIL == 0 - 1
\* what SO_ERROR may report: no pending error, or ECONNRESET
PendingErrors == {0, 104}
\* sizeof(hdr_buf), sizeof(part_buf)
M1_HDR_BUF_SIZE == 128
M2_PART_BUF_SIZE == 64
P0_PART_BUF_SIZE == 128
\* the length argument of the boundary write
M1_BOUNDARY_LEN == 12
M2_BOUNDARY_LEN == 12
P0_BOUNDARY_LEN == 10
\* pacing intervals, ms
CONFIG_CAMERA_STREAM_FRAME_INTERVAL == 30
M2_FRAME_INTERVAL == 30
P0_FRAME_INTERVAL == 33
\* FPS sample window, ms
FPS_WINDOW_MS == 5000

\* the string literal "\r\n--frame\r\n" as it lies in memory, NUL included
BoundaryLiteral ==
  << 13, 10, 45, 45, 102, 114, 97, 109, 101, 13, 10, 0 >>
\* "Content-Type: image/jpeg\r\n"
StrContentType ==
  << 67, 111, 110, 116, 101, 110, 116, 45, 84, 121, 112, 101, 58, 32,
     105, 109, 97, 103, 101, 47, 106, 112, 101, 103, 13, 10 >>
\* "Content-Length: "
StrContentLength ==
  << 67, 111, 110, 116, 101, 110, 116, 45, 76, 101, 110, 103, 116, 104, 58, 32 >>
\* "X-Frame-Number: "
StrFrameNumber ==
  << 88, 45, 70, 114, 97, 109, 101, 45, 78, 117, 109, 98, 101, 114, 58, 32 >>
\* "X-Timestamp: "
StrTimestamp ==
  << 88, 45, 84, 105, 109, 101, 115, 116, 97, 109, 112, 58, 32 >>
\* "X-FPS: "
StrFps ==
  << 88, 45, 70, 80, 83, 58, 32 >>
CRLF ==
  << 13, 10 >>

\* ------------------------------------------------------- 32-bit arithmetic
U32Of(n) ==
  [hi |-> (n \div 65536) % 65536, lo |-> n % 65536]

\* (a + n) mod 2^32, for 0 <= n < 2^30
U32Add(a, n) ==
  LET s == a.lo + n
  IN  [hi |-> (a.hi + (s \div 65536)) % 65536, lo |-> s % 65536]

\* (a - b) mod 2^32: unsigned subtraction as in "now - last_fps_time"
U32Sub(a, b) ==
  LET borrow == IF a.lo < b.lo THEN 1 ELSE 0
  IN  [hi |-> (a.hi - b.hi - borrow + 65536) % 65536,
       lo |-> (a.lo - b.lo + 65536) % 65536]

\* a >= b, unsigned
U32Geq(a, b) ==
  a.hi > b.hi \/ (a.hi = b.hi /\ a.lo >= b.lo)

\* a \div 10 and a % 10 by long division on the halves
U32Div10(a) ==
  LET r == a.hi % 10
      t == r * 65536 + a.lo
  IN  [q |-> [hi |-> a.hi \div 10, lo |-> t \div 10], r |-> t % 10]

\* ------------------------------------------------------ printf conversions
RECURSIVE Digits(_)
\* "%u" / "%" PRIu32 of a value below 2^31: decimal digits, no padding
Digits(n) ==
  IF n < 10 THEN << 48 + n >> ELSE Digits(n \div 10) \o << 48 + (n % 10) >>

RECURSIVE U32Digits(_)
\* "%" PRIu32 of a full-width 32-bit value
U32Digits(a) ==
  IF a.hi = 0 /\ a.lo < 10
    THEN << 48 + a.lo >>
    ELSE LET d == U32Div10(a) IN U32Digits(d.q) \o << 48 + d.r >>

\* "%lld" of esp_timer_get_time(): microseconds, the clock being read at
\* millisecond resolution (ms * 1000)
LldMicros(a) ==
  IF a.hi = 0 /\ a.lo = 0 THEN << 48 >> ELSE U32Digits(a) \o << 48, 48, 48 >>

\* "%.2f" of a non-negative value held in hundredths
Fixed2(h) ==
  Digits(h \div 100) \o << 46, 48 + ((h \div 10) % 10), 48 + (h % 10) >>

\* snprintf(buf, size, ...): what the buffer holds afterwards and the value
\* returned, the length the full text would have had
snprintf(size, text) ==
  [buf |-> IF Len(text) < size THEN text \o << 0 >>
                               ELSE SubSeq(text, 1, size - 1) \o << 0 >>,
   ret |-> Len(text)]

\* the bytes httpd_resp_send_chunk(req, buf, len) takes from memory: the
\* first len bytes at buf; what lies past the written part of the buffer is
\* indeterminate and stands as the byte junk
ChunkBytes(buf, len, junk) ==
  [i \in 1..len |-> IF i <= Len(buf) THEN buf[i] ELSE junk]

\* ------------------------------------------------------------------- state
VARIABLES
  prog,             \* which of the three programs is flashed
  pc,               \* position of the httpd task: "idle" = no handler running
  booted,           \* history: loop iterations begun since boot, all sessions
  now,              \* the millisecond clock, 32 bits
  fb,               \* the handler's local fb: 0 is NULL, n the n-th frame pulled
  hdr_buf,          \* the handler's local header buffer (hdr_buf / part_buf)
  hdr_len,          \* the handler's local hdr_len / hlen
  res,              \* the handler's result (res in part_000, the returned code)
  frame_counter,    \* static uint32_t frame_counter   (program 1)
  last_fps_time,    \* static uint32_t last_fps_time   (program 1)
  fps_frame_count,  \* static uint32_t fps_frame_count (program 1)
  current_fps,      \* static float current_fps, in hundredths (program 1)
  iter,             \* history: loop iterations begun in this session
  calls,            \* history: esp_camera_fb_get calls of this session
  fb_len,           \* fb->len of the frame last pulled
  pulled,           \* history: frames pulled in this session
  returns,          \* history: the esp_camera_fb_return calls of this session
  wire,             \* history: the httpd_resp_send_chunk calls of this session
  part,             \* history: bytes and length of the chunks of the frame last pulled
  typeRes,          \* history: results of httpd_resp_set_type in this session
  exitReason,       \* history: why the loop of this session was left
  frame_lens,       \* the frame lengths the camera hands out as configured
  probe,            \* history: the last liveness probe of this session
  yielded,          \* history: the task was suspended since the last pull
  parts_total,      \* history: parts fully written since boot, all sessions
  wifi_connected,   \* static bool wifi_connected (programs 1 and 2)
  app,              \* position of app_main
  wait_i,           \* app_main's loop counter i
  sta,              \* the Wi-Fi station as the driver sees it
  polls,            \* history: reads of the flag by the loop condition
  observed,         \* history: the value app_main last read from the flag
  events,           \* history: Wi-Fi and IP events handled since boot
  mdns_inits,       \* history: runs of mdns_init_service since boot
  camera_calls,     \* history: calls of camera_init by app_main
  server_started    \* history: start_webserver brought the server up

vars ==
  << prog, pc, booted, now, fb, hdr_buf, hdr_len, res, frame_counter,
     last_fps_time, fps_frame_count, current_fps, iter, calls, pulled,
     fb_len, returns, wire, part, typeRes, exitReason, frame_lens, probe,
     yielded, parts_total, wifi_connected, app, wait_i, sta, polls, observed,
     events, mdns_inits, camera_calls, server_started >>

\* what the httpd task and the stream handler work on
streaming ==
  << pc, booted, now, fb, hdr_buf, hdr_len, res, frame_counter,
     last_fps_time, fps_frame_count, current_fps, iter, calls, pulled, fb_len,
     returns, wire, part, typeRes, exitReason, probe, yielded, parts_total >>

\* what startup and the Wi-Fi event handler work on
startup ==
  << wifi_connected, app, wait_i, sta, polls, observed, events, mdns_inits,
     camera_calls, server_started >>

\* startup went through at the first attempt and the server is up
StartupDone ==
  /\ wifi_connected = TRUE
  /\ app = "serve"
  /\ wait_i = 0
  /\ sta = "up"
  /\ polls = 1
  /\ observed = TRUE
  /\ events = 2
  /\ mdns_inits = (IF prog = 1 THEN 1 ELSE 0)
  /\ camera_calls = 1
  /\ server_started = TRUE

\* what is fixed at boot
config == << prog, frame_lens >>

\* the result of a probe that found nothing wrong, also before any probe
NoProbe == [rc |-> 0, err |-> 0, alive |-> TRUE]

\* the statics of program 1
statics == << frame_counter, last_fps_time, fps_frame_count, current_fps >>

Init ==
  /\ prog \in {1, 2, 3}
  /\ pc = "idle"
  /\ booted = 0
  /\ now \in BootClocks
  /\ fb = 0
  /\ hdr_buf = << >>
  /\ hdr_len = 0
  /\ res = ESP_OK
  /\ frame_counter = 0
  /\ last_fps_time = U32Of(0)
  /\ fps_frame_count = 0
  /\ current_fps = 0
  /\ iter = 0
  /\ calls = 0
  /\ pulled = 0
  /\ fb_len = 0
  /\ returns = << >>
  /\ wire = << >>
  /\ part = << >>
  /\ typeRes = << >>
  /\ exitReason = "none"
  /\ frame_lens = FrameLens
  /\ probe = NoProbe
  /\ yielded = FALSE
  /\ parts_total = 0
  /\ StartupDone

\* ------------------------------------------------------------ collaborators
\* gettimeofday() folded to 32-bit milliseconds
get_timestamp_ms == now

\* the probe looking at the result of the query only
is_client_connected_rc_only(rc, err) ==
  rc = 0

\* getsockopt(SO_ERROR) returned rc and left err
is_client_connected(rc, err) ==
  rc = 0 /\ err = 0

\* esp_camera_fb_return(f): one more return of frame f
esp_camera_fb_return(rs, f) ==
  Append(rs, f)

\* httpd_resp_send_chunk(req, buf, len) with result r: one more chunk handed
\* to the transport for the frame in hand
httpd_resp_send_chunk(w, seg, r) ==
  Append(w, [seg |-> seg, frame |-> fb, ok |-> (r = ESP_OK)])

\* the bytes and the length of that chunk
ChunkSent(p, seg, bytes, len) ==
  Append(p, [seg |-> seg, bytes |-> bytes, len |-> len])

RECURSIVE LongDiv(_, _, _)
\* r * 10^n divided by e, for r < e < 2^27: quotient and remainder, digit by
\* digit so that no product leaves the range of 32-bit signed integers
LongDiv(r, e, n) ==
  IF n = 0
    THEN [q |-> 0, r |-> r]
    ELSE LET p == LongDiv(r, e, n - 1)
             t == p.r * 10
         IN  [q |-> p.q * 10 + t \div e, r |-> t % e]

\* (float)count * 1000.0 / elapsed, in hundredths rounded to nearest, for
\* rates below 21 million; an elapsed time of 2^27 ms or more is taken as
\* 2^27 (the quotient is below 0.005 either way for every count below 600)
FpsOf(count, elapsed) ==
  LET e == IF elapsed.hi >= 2048 THEN 134217728
                                 ELSE elapsed.hi * 65536 + elapsed.lo
      f == LongDiv(count % e, e, 5)
  IN  (count \div e) * 100000 + f.q + (IF 2 * f.r >= e THEN 1 ELSE 0)

\* calculate_fps taking the difference of the clock readings without wrap
calculate_fps_no_wrap(count, last, fps, t) ==
  LET c == count + 1
      elapsed == IF U32Geq(t, last) THEN U32Sub(t, last) ELSE U32Of(0)
  IN  IF U32Geq(elapsed, U32Of(FPS_WINDOW_MS))
        THEN [count |-> 0, last |-> t, fps |-> FpsOf(c, elapsed)]
        ELSE [count |-> c, last |-> last, fps |-> fps]

\* calculate_fps(): the statics after one call at clock reading t
calculate_fps(count, last, fps, t) ==
  LET c == count + 1
      elapsed == U32Sub(t, last)
  IN  IF U32Geq(elapsed, U32Of(FPS_WINDOW_MS))
        THEN [count |-> 0, last |-> t, fps |-> FpsOf(c, elapsed)]
        ELSE [count |-> c, last |-> last, fps |-> fps]

\* M1_header with the first two arguments of the format in each other's place
M1_header_swapped(len, fc, ts, fps) ==
  StrContentType
    \o StrContentLength \o Digits(fc) \o CRLF
    \o StrFrameNumber \o Digits(len) \o CRLF
    \o StrTimestamp \o U32Digits(ts) \o CRLF
    \o StrFps \o Fixed2(fps) \o CRLF \o CRLF

\* the text of the header block of program 1
M1_header(len, fc, ts, fps) ==
  StrContentType
    \o StrContentLength \o Digits(len) \o CRLF
    \o StrFrameNumber \o Digits(fc) \o CRLF
    \o StrTimestamp \o U32Digits(ts) \o CRLF
    \o StrFps \o Fixed2(fps) \o CRLF \o CRLF

\* the text of the header block of program 2
M2_header(len) ==
  StrContentType \o StrContentLength \o Digits(len) \o CRLF \o CRLF

\* the text of the header block of part_000
P0_header(len, ts) ==
  StrContentType
    \o StrContentLength \o Digits(len) \o CRLF
    \o StrTimestamp \o LldMicros(ts) \o CRLF \o CRLF

\* a new invocation of the handler: fresh locals, fresh session history
NewSession ==
  /\ pc = "idle"
  /\ booted < MaxIter
  /\ fb' = 0
  /\ hdr_buf' = << >>
  /\ hdr_len' = 0
  /\ iter' = 0
  /\ calls' = 0
  /\ pulled' = 0
  /\ fb_len' = 0
  /\ returns' = << >>
  /\ wire' = << >>
  /\ part' = << >>
  /\ probe' = NoProbe
  /\ yielded' = FALSE

\* ------------------------------------------- program 1: main.c, lines 178-212
M1_entry ==
  /\ prog = 1
  /\ NewSession
  /\ \E st \in {ESP_OK, ESP_FAIL} : typeRes' = << st >>
  /\ last_fps_time' = get_timestamp_ms
  /\ res' = ESP_OK
  /\ exitReason' = "none"
  /\ pc' = "check"
  /\ UNCHANGED << config, booted, now, frame_counter, fps_frame_count, current_fps >>
  /\ UNCHANGED << parts_total >>
  /\ UNCHANGED startup

\* the probe of program 1 with `continue` in place of `break`
M1_is_client_connected_continue ==
  /\ prog = 1
  /\ pc = "check"
  /\ booted < MaxIter
  /\ booted' = booted + 1
  /\ iter' = iter + 1
  /\ \E rc \in {0, 0 - 1}, soerr \in PendingErrors :
       LET err == IF rc = 0 THEN soerr ELSE 0
       IN  /\ probe' = [rc |-> rc, err |-> err,
                         alive |-> is_client_connected(rc, err)]
           /\ IF is_client_connected(rc, err)
                THEN pc' = "get" /\ UNCHANGED exitReason
                ELSE pc' = "check" /\ UNCHANGED exitReason
  /\ UNCHANGED << config, now, fb, hdr_buf, hdr_len, res, statics,
                  calls, pulled, fb_len, returns, wire, part, typeRes >>
  /\ UNCHANGED << yielded, parts_total >>
  /\ UNCHANGED startup

M1_is_client_connected ==
  /\ prog = 1
  /\ pc = "check"
  /\ booted < MaxIter
  /\ booted' = booted + 1
  /\ iter' = iter + 1
  /\ \E rc \in {0, 0 - 1}, soerr \in PendingErrors :
       LET err == IF rc = 0 THEN soerr ELSE 0
       IN  /\ probe' = [rc |-> rc, err |-> err,
                         alive |-> is_client_connected(rc, err)]
           /\ IF is_client_connected(rc, err)
                THEN pc' = "get" /\ UNCHANGED exitReason
                ELSE pc' = "closing" /\ exitReason' = "probe"
  /\ UNCHANGED << config, now, fb, hdr_buf, hdr_len, res, statics,
                  calls, pulled, fb_len, returns, wire, part, typeRes >>
  /\ UNCHANGED << yielded, parts_total >>
  /\ UNCHANGED startup

M1_fb_get ==
  /\ prog = 1
  /\ pc = "get"
  /\ calls' = calls + 1
  /\ \/ \* if (!fb) continue;
        /\ fb' = 0
        /\ pc' = "check"
        /\ UNCHANGED << pulled, fb_len, part, frame_counter, hdr_buf, hdr_len >>
     \/ \E len \in frame_lens :
          LET s == snprintf(M1_HDR_BUF_SIZE,
                            M1_header(len, frame_counter + 1,
                                      get_timestamp_ms, current_fps))
          IN  /\ pulled' = pulled + 1
              /\ fb_len' = len
              /\ part' = << >>
              /\ fb' = pulled + 1
              /\ frame_counter' = frame_counter + 1
              /\ hdr_buf' = s.buf
              /\ hdr_len' = s.ret
              /\ pc' = "boundary"
  /\ UNCHANGED << config, booted, now, res, last_fps_time, fps_frame_count,
                  current_fps, iter, returns, wire, typeRes, exitReason >>
  /\ yielded' = FALSE
  /\ UNCHANGED << probe, parts_total >>
  /\ UNCHANGED startup

M1_send_boundary ==
  /\ prog = 1
  /\ pc = "boundary"
  /\ \E r \in {ESP_OK, ESP_FAIL} :
       /\ wire' = httpd_resp_send_chunk(wire, "boundary", r)
       /\ part' = ChunkSent(part, "boundary",
                     ChunkBytes(BoundaryLiteral, M1_BOUNDARY_LEN, 0), M1_BOUNDARY_LEN)
       /\ IF r = ESP_OK
            THEN pc' = "header" /\ UNCHANGED << returns, exitReason >>
            ELSE /\ returns' = esp_camera_fb_return(returns, fb)
                 /\ pc' = "closing"
                 /\ exitReason' = "write"
  /\ UNCHANGED << config, booted, now, fb, hdr_buf, hdr_len, res, statics,
                  iter, calls, pulled, fb_len, typeRes >>
  /\ UNCHANGED << probe, yielded, parts_total >>
  /\ UNCHANGED startup

M1_send_header ==
  /\ prog = 1
  /\ pc = "header"
  /\ \E r \in {ESP_OK, ESP_FAIL}, junk \in {0, 255} :
       /\ wire' = httpd_resp_send_chunk(wire, "header", r)
       /\ part' = ChunkSent(part, "header",
                     ChunkBytes(hdr_buf, hdr_len, junk), hdr_len)
       /\ IF r = ESP_OK
            THEN pc' = "payload" /\ UNCHANGED << returns, exitReason >>
            ELSE /\ returns' = esp_camera_fb_return(returns, fb)
                 /\ pc' = "closing"
                 /\ exitReason' = "write"
  /\ UNCHANGED << config, booted, now, fb, hdr_buf, hdr_len, res, statics,
                  iter, calls, pulled, fb_len, typeRes >>
  /\ UNCHANGED << probe, yielded, parts_total >>
  /\ UNCHANGED startup

\* M1_send_payload without the esp_camera_fb_return of line 207
M1_send_payload_leak ==
  /\ prog = 1
  /\ pc = "payload"
  /\ \E r \in {ESP_OK, ESP_FAIL} :
       /\ parts_total' = IF r = ESP_OK THEN parts_total + 1 ELSE parts_total
       /\ wire' = httpd_resp_send_chunk(wire, "payload", r)
       /\ part' = ChunkSent(part, "payload",
                     << >>, fb_len)
       /\ returns' = IF r = ESP_OK THEN returns
                                ELSE esp_camera_fb_return(returns, fb)
       /\ IF r = ESP_OK
            THEN LET c == calculate_fps(fps_frame_count, last_fps_time,
                                        current_fps, get_timestamp_ms)
                 IN  /\ fps_frame_count' = c.count
                     /\ last_fps_time' = c.last
                     /\ current_fps' = c.fps
                     /\ pc' = "delay"
                     /\ UNCHANGED exitReason
            ELSE /\ pc' = "closing"
                 /\ exitReason' = "write"
                 /\ UNCHANGED << fps_frame_count, last_fps_time, current_fps >>
  /\ UNCHANGED << config, booted, now, fb, hdr_buf, hdr_len, res,
                  frame_counter, iter, calls, pulled, fb_len, typeRes >>
  /\ UNCHANGED << probe, yielded >>
  /\ UNCHANGED startup

M1_send_payload ==
  /\ prog = 1
  /\ pc = "payload"
  /\ \E r \in {ESP_OK, ESP_FAIL} :
       /\ parts_total' = IF r = ESP_OK THEN parts_total + 1 ELSE parts_total
       /\ wire' = httpd_resp_send_chunk(wire, "payload", r)
       /\ part' = ChunkSent(part, "payload",
                     << >>, fb_len)
       /\ returns' = esp_camera_fb_return(returns, fb)
       /\ IF r = ESP_OK
            THEN LET c == calculate_fps(fps_frame_count, last_fps_time,
                                        current_fps, get_timestamp_ms)
                 IN  /\ fps_frame_count' = c.count
                     /\ last_fps_time' = c.last
                     /\ current_fps' = c.fps
                     /\ pc' = "delay"
                     /\ UNCHANGED exitReason
            ELSE /\ pc' = "closing"
                 /\ exitReason' = "write"
                 /\ UNCHANGED << fps_frame_count, last_fps_time, current_fps >>
  /\ UNCHANGED << config, booted, now, fb, hdr_buf, hdr_len, res,
                  frame_counter, iter, calls, pulled, fb_len, typeRes >>
  /\ UNCHANGED << probe, yielded >>
  /\ UNCHANGED startup

M1_vTaskDelay ==
  /\ prog = 1
  /\ pc = "delay"
  /\ \E j \in Jitter :
       now' = U32Add(now, CONFIG_CAMERA_STREAM_FRAME_INTERVAL + j)
  /\ pc' = "check"
  /\ UNCHANGED << config, booted, fb, hdr_buf, hdr_len, res, statics, iter,
                  calls, pulled, fb_len, returns, wire, part, typeRes, exitReason >>
  /\ yielded' = TRUE
  /\ UNCHANGED << probe, parts_total >>
  /\ UNCHANGED startup

M1_return ==
  /\ prog = 1
  /\ pc = "closing"
  /\ res' = ESP_OK
  /\ pc' = "idle"
  /\ UNCHANGED << config, booted, now, fb, hdr_buf, hdr_len, statics, iter,
                  calls, pulled, fb_len, returns, wire, part, typeRes, exitReason >>
  /\ UNCHANGED << probe, yielded, parts_total >>
  /\ UNCHANGED startup

\* ------------------------------------------- program 2: main.c, lines 406-436
M2_entry ==
  /\ prog = 2
  /\ NewSession
  /\ \E st \in {ESP_OK, ESP_FAIL} : typeRes' = << st >>
  /\ res' = ESP_OK
  /\ exitReason' = "none"
  /\ pc' = "get"
  /\ UNCHANGED << config, booted, now, statics >>
  /\ UNCHANGED << parts_total >>
  /\ UNCHANGED startup

\* M2_fb_get followed by the header write, the boundary write left out
M2_fb_get_no_boundary ==
  /\ prog = 2
  /\ pc = "get"
  /\ booted < MaxIter
  /\ booted' = booted + 1
  /\ iter' = iter + 1
  /\ calls' = calls + 1
  /\ \/ \* if (!fb) return ESP_FAIL;
        /\ fb' = 0
        /\ res' = ESP_FAIL
        /\ pc' = "idle"
        /\ exitReason' = "capture"
        /\ UNCHANGED << pulled, fb_len, part, hdr_buf, hdr_len >>
     \/ \E len \in frame_lens :
          LET s == snprintf(M2_PART_BUF_SIZE, M2_header(len))
          IN  /\ pulled' = pulled + 1
              /\ fb_len' = len
              /\ part' = << >>
              /\ fb' = pulled + 1
              /\ hdr_buf' = s.buf
              /\ hdr_len' = s.ret
              /\ pc' = "header"
              /\ UNCHANGED << res, exitReason >>
  /\ UNCHANGED << config, now, statics, returns, wire, typeRes >>
  /\ yielded' = FALSE
  /\ UNCHANGED << probe, parts_total >>
  /\ UNCHANGED startup

M2_fb_get ==
  /\ prog = 2
  /\ pc = "get"
  /\ booted < MaxIter
  /\ booted' = booted + 1
  /\ iter' = iter + 1
  /\ calls' = calls + 1
  /\ \/ \* if (!fb) return ESP_FAIL;
        /\ fb' = 0
        /\ res' = ESP_FAIL
        /\ pc' = "idle"
        /\ exitReason' = "capture"
        /\ UNCHANGED << pulled, fb_len, part, hdr_buf, hdr_len >>
     \/ \E len \in frame_lens :
          LET s == snprintf(M2_PART_BUF_SIZE, M2_header(len))
          IN  /\ pulled' = pulled + 1
              /\ fb_len' = len
              /\ part' = << >>
              /\ fb' = pulled + 1
              /\ hdr_buf' = s.buf
              /\ hdr_len' = s.ret
              /\ pc' = "boundary"
              /\ UNCHANGED << res, exitReason >>
  /\ UNCHANGED << config, now, statics, returns, wire, typeRes >>
  /\ yielded' = FALSE
  /\ UNCHANGED << probe, parts_total >>
  /\ UNCHANGED startup

\* M2_send_boundary with the result of the write ignored
M2_send_boundary_unchecked ==
  /\ prog = 2
  /\ pc = "boundary"
  /\ \E r \in {ESP_OK, ESP_FAIL} :
       /\ wire' = httpd_resp_send_chunk(wire, "boundary", r)
       /\ part' = ChunkSent(part, "boundary",
                     ChunkBytes(BoundaryLiteral, M2_BOUNDARY_LEN, 0), M2_BOUNDARY_LEN)
       /\ pc' = "header"
       /\ UNCHANGED << returns, exitReason >>
  /\ UNCHANGED << config, booted, now, fb, hdr_buf, hdr_len, res, statics,
                  iter, calls, pulled, fb_len, typeRes >>
  /\ UNCHANGED << probe, yielded, parts_total >>
  /\ UNCHANGED startup

M2_send_boundary ==
  /\ prog = 2
  /\ pc = "boundary"
  /\ \E r \in {ESP_OK, ESP_FAIL} :
       /\ wire' = httpd_resp_send_chunk(wire, "boundary", r)
       /\ part' = ChunkSent(part, "boundary",
                     ChunkBytes(BoundaryLiteral, M2_BOUNDARY_LEN, 0), M2_BOUNDARY_LEN)
       /\ IF r = ESP_OK
            THEN pc' = "header" /\ UNCHANGED << returns, exitReason >>
            ELSE /\ returns' = esp_camera_fb_return(returns, fb)
                 /\ pc' = "closing"
                 /\ exitReason' = "write"
  /\ UNCHANGED << config, booted, now, fb, hdr_buf, hdr_len, res, statics,
                  iter, calls, pulled, fb_len, typeRes >>
  /\ UNCHANGED << probe, yielded, parts_total >>
  /\ UNCHANGED startup

M2_send_header ==
  /\ prog = 2
  /\ pc = "header"
  /\ \E r \in {ESP_OK, ESP_FAIL}, junk \in {0, 255} :
       /\ wire' = httpd_resp_send_chunk(wire, "header", r)
       /\ part' = ChunkSent(part, "header",
                     ChunkBytes(hdr_buf, hdr_len, junk), hdr_len)
       /\ IF r = ESP_OK
            THEN pc' = "payload" /\ UNCHANGED << returns, exitReason >>
            ELSE /\ returns' = esp_camera_fb_return(returns, fb)
                 /\ pc' = "closing"
                 /\ exitReason' = "write"
  /\ UNCHANGED << config, booted, now, fb, hdr_buf, hdr_len, res, statics,
                  iter, calls, pulled, fb_len, typeRes >>
  /\ UNCHANGED << probe, yielded, parts_total >>
  /\ UNCHANGED startup

\* the payload write of program 2 with the test of its result inverted
M2_send_payload_inverted ==
  /\ prog = 2
  /\ pc = "payload"
  /\ \E r \in {ESP_OK, ESP_FAIL} :
       /\ parts_total' = IF r = ESP_OK THEN parts_total + 1 ELSE parts_total
       /\ wire' = httpd_resp_send_chunk(wire, "payload", r)
       /\ part' = ChunkSent(part, "payload",
                     << >>, fb_len)
       /\ returns' = esp_camera_fb_return(returns, fb)
       /\ IF r # ESP_OK
            THEN pc' = "delay" /\ UNCHANGED exitReason
            ELSE pc' = "closing" /\ exitReason' = "write"
  /\ UNCHANGED << config, booted, now, fb, hdr_buf, hdr_len, res, statics,
                  iter, calls, pulled, fb_len, typeRes >>
  /\ UNCHANGED << probe, yielded >>
  /\ UNCHANGED startup

\* the payload write of program 2 releasing the frame only when it breaks
M2_send_payload_keep ==
  /\ prog = 2
  /\ pc = "payload"
  /\ \E r \in {ESP_OK, ESP_FAIL} :
       /\ parts_total' = IF r = ESP_OK THEN parts_total + 1 ELSE parts_total
       /\ wire' = httpd_resp_send_chunk(wire, "payload", r)
       /\ part' = ChunkSent(part, "payload",
                     << >>, fb_len)
       /\ IF r = ESP_OK
            THEN pc' = "delay" /\ UNCHANGED << exitReason, returns >>
            ELSE /\ pc' = "closing"
                 /\ exitReason' = "write"
                 /\ returns' = esp_camera_fb_return(returns, fb)
  /\ UNCHANGED << config, booted, now, fb, hdr_buf, hdr_len, res, statics,
                  iter, calls, pulled, fb_len, typeRes >>
  /\ UNCHANGED << probe, yielded >>
  /\ UNCHANGED startup

M2_send_payload ==
  /\ prog = 2
  /\ pc = "payload"
  /\ \E r \in {ESP_OK, ESP_FAIL} :
       /\ parts_total' = IF r = ESP_OK THEN parts_total + 1 ELSE parts_total
       /\ wire' = httpd_resp_send_chunk(wire, "payload", r)
       /\ part' = ChunkSent(part, "payload",
                     << >>, fb_len)
       /\ returns' = esp_camera_fb_return(returns, fb)
       /\ IF r = ESP_OK
            THEN pc' = "delay" /\ UNCHANGED exitReason
            ELSE pc' = "closing" /\ exitReason' = "write"
  /\ UNCHANGED << config, booted, now, fb, hdr_buf, hdr_len, res, statics,
                  iter, calls, pulled, fb_len, typeRes >>
  /\ UNCHANGED << probe, yielded >>
  /\ UNCHANGED startup

M2_vTaskDelay ==
  /\ prog = 2
  /\ pc = "delay"
  /\ \E j \in Jitter : now' = U32Add(now, M2_FRAME_INTERVAL + j)
  /\ pc' = "get"
  /\ UNCHANGED << config, booted, fb, hdr_buf, hdr_len, res, statics, iter,
                  calls, pulled, fb_len, returns, wire, part, typeRes, exitReason >>
  /\ yielded' = TRUE
  /\ UNCHANGED << probe, parts_total >>
  /\ UNCHANGED startup

M2_return ==
  /\ prog = 2
  /\ pc = "closing"
  /\ res' = ESP_OK
  /\ pc' = "idle"
  /\ UNCHANGED << config, booted, now, fb, hdr_buf, hdr_len, statics, iter,
                  calls, pulled, fb_len, returns, wire, part, typeRes, exitReason >>
  /\ UNCHANGED << probe, yielded, parts_total >>
  /\ UNCHANGED startup

\* ------------------------------------------ program 3: part_000, lines 207-272
P0_entry ==
  /\ prog = 3
  /\ NewSession
  /\ \E st \in {ESP_OK, ESP_FAIL} :
       /\ typeRes' = << st >>
       /\ res' = st
       /\ pc' = IF st = ESP_OK THEN "get" ELSE "idle"
       /\ exitReason' = IF st = ESP_OK THEN "none" ELSE "settype"
  /\ UNCHANGED << config, booted, now, statics >>
  /\ UNCHANGED << parts_total >>
  /\ UNCHANGED startup

P0_fb_get ==
  /\ prog = 3
  /\ pc = "get"
  /\ booted < MaxIter
  /\ booted' = booted + 1
  /\ iter' = iter + 1
  /\ calls' = calls + 1
  /\ \/ \* if (!fb) { res = ESP_FAIL; break; }
        /\ fb' = 0
        /\ res' = ESP_FAIL
        /\ pc' = "closing"
        /\ exitReason' = "capture"
        /\ UNCHANGED << pulled, fb_len, part >>
     \/ \E len \in frame_lens :
          /\ pulled' = pulled + 1
          /\ fb_len' = len
          /\ part' = << >>
          /\ fb' = pulled + 1
          /\ pc' = "boundary"
          /\ UNCHANGED << res, exitReason >>
  /\ UNCHANGED << config, now, hdr_buf, hdr_len, statics, returns,
                  wire, typeRes >>
  /\ yielded' = FALSE
  /\ UNCHANGED << probe, parts_total >>
  /\ UNCHANGED startup

P0_send_boundary ==
  /\ prog = 3
  /\ pc = "boundary"
  /\ \E r \in {ESP_OK, ESP_FAIL} :
       /\ wire' = httpd_resp_send_chunk(wire, "boundary", r)
       /\ part' = ChunkSent(part, "boundary",
                     ChunkBytes(BoundaryLiteral, P0_BOUNDARY_LEN, 0), P0_BOUNDARY_LEN)
       /\ res' = r
       /\ IF r = ESP_OK
            THEN LET s == snprintf(P0_PART_BUF_SIZE,
                                   P0_header(fb_len, now))
                 IN  /\ hdr_buf' = s.buf
                     /\ hdr_len' = s.ret
                     /\ pc' = "header"
                     /\ UNCHANGED << returns, exitReason >>
            ELSE /\ returns' = esp_camera_fb_return(returns, fb)
                 /\ pc' = "closing"
                 /\ exitReason' = "write"
                 /\ UNCHANGED << hdr_buf, hdr_len >>
  /\ UNCHANGED << config, booted, now, fb, statics, iter, calls, pulled, fb_len,
                  typeRes >>
  /\ UNCHANGED << probe, yielded, parts_total >>
  /\ UNCHANGED startup

P0_send_header ==
  /\ prog = 3
  /\ pc = "header"
  /\ \E r \in {ESP_OK, ESP_FAIL}, junk \in {0, 255} :
       /\ wire' = httpd_resp_send_chunk(wire, "header", r)
       /\ part' = ChunkSent(part, "header",
                     ChunkBytes(hdr_buf, hdr_len, junk), hdr_len)
       /\ res' = r
       /\ IF r = ESP_OK
            THEN pc' = "payload" /\ UNCHANGED << returns, exitReason >>
            ELSE /\ returns' = esp_camera_fb_return(returns, fb)
                 /\ pc' = "closing"
                 /\ exitReason' = "write"
  /\ UNCHANGED << config, booted, now, fb, hdr_buf, hdr_len, statics, iter,
                  calls, pulled, fb_len, typeRes >>
  /\ UNCHANGED << probe, yielded, parts_total >>
  /\ UNCHANGED startup

\* P0_send_payload without the check of res in lines 258-260
P0_send_payload_unchecked ==
  /\ prog = 3
  /\ pc = "payload"
  /\ \E r \in {ESP_OK, ESP_FAIL} :
       /\ parts_total' = IF r = ESP_OK THEN parts_total + 1 ELSE parts_total
       /\ wire' = httpd_resp_send_chunk(wire, "payload", r)
       /\ part' = ChunkSent(part, "payload",
                     << >>, fb_len)
       /\ res' = r
       /\ returns' = esp_camera_fb_return(returns, fb)
       /\ fb' = 0
       /\ pc' = "delay"
       /\ UNCHANGED exitReason
  /\ UNCHANGED << config, booted, now, hdr_buf, hdr_len, statics, iter,
                  calls, pulled, fb_len, typeRes >>
  /\ UNCHANGED << probe, yielded >>
  /\ UNCHANGED startup

P0_send_payload ==
  /\ prog = 3
  /\ pc = "payload"
  /\ \E r \in {ESP_OK, ESP_FAIL} :
       /\ parts_total' = IF r = ESP_OK THEN parts_total + 1 ELSE parts_total
       /\ wire' = httpd_resp_send_chunk(wire, "payload", r)
       /\ part' = ChunkSent(part, "payload",
                     << >>, fb_len)
       /\ res' = r
       /\ returns' = esp_camera_fb_return(returns, fb)
       /\ fb' = 0
       /\ IF r = ESP_OK
            THEN pc' = "delay" /\ UNCHANGED exitReason
            ELSE pc' = "closing" /\ exitReason' = "write"
  /\ UNCHANGED << config, booted, now, hdr_buf, hdr_len, statics, iter,
                  calls, pulled, fb_len, typeRes >>
  /\ UNCHANGED << probe, yielded >>
  /\ UNCHANGED startup

P0_vTaskDelay ==
  /\ prog = 3
  /\ pc = "delay"
  /\ \E j \in Jitter : now' = U32Add(now, P0_FRAME_INTERVAL + j)
  /\ pc' = "get"
  /\ UNCHANGED << config, booted, fb, hdr_buf, hdr_len, res, statics, iter,
                  calls, pulled, fb_len, returns, wire, part, typeRes, exitReason >>
  /\ yielded' = TRUE
  /\ UNCHANGED << probe, parts_total >>
  /\ UNCHANGED startup

\* after the loop: if (fb) esp_camera_fb_return(fb); return res;
P0_stream_end ==
  /\ prog = 3
  /\ pc = "closing"
  /\ returns' = IF fb # 0 THEN esp_camera_fb_return(returns, fb) ELSE returns
  /\ pc' = "idle"
  /\ UNCHANGED << config, booted, now, fb, hdr_buf, hdr_len, res, statics,
                  iter, calls, pulled, fb_len, wire, part, typeRes, exitReason >>
  /\ UNCHANGED << probe, yielded, parts_total >>
  /\ UNCHANGED startup

\* ----------------------------------------------------------- specification
Next ==
  \/ M1_entry
  \/ M1_is_client_connected
  \/ M1_fb_get
  \/ M1_send_boundary
  \/ M1_send_header
  \/ M1_send_payload
  \/ M1_vTaskDelay
  \/ M1_return
  \/ M2_entry
  \/ M2_fb_get
  \/ M2_send_boundary
  \/ M2_send_header
  \/ M2_send_payload
  \/ M2_vTaskDelay
  \/ M2_return
  \/ P0_entry
  \/ P0_fb_get
  \/ P0_send_boundary
  \/ P0_send_header
  \/ P0_send_payload
  \/ P0_vTaskDelay
  \/ P0_stream_end

Spec == Init /\ [][Next]_vars

TypeOK ==
  /\ prog \in {1, 2, 3}
  /\ pc \in {"idle", "check", "get", "boundary", "header", "payload",
             "delay", "closing"}
  /\ fb \in 0..pulled
  /\ frame_lens \subseteq Nat
  /\ probe \in [rc : {0, 0 - 1}, err : PendingErrors, alive : BOOLEAN]
  /\ yielded \in BOOLEAN
  /\ parts_total \in 0..booted
  /\ wifi_connected \in BOOLEAN
  /\ app \in {"loop", "delay", "decide", "serve", "aborted", "returned"}
  /\ wait_i \in Nat
  /\ sta \in {"started", "connecting", "up"}
  /\ polls \in Nat
  /\ observed \in BOOLEAN
  /\ events \in Nat
  /\ mdns_inits \in Nat
  /\ camera_calls \in Nat
  /\ server_started \in BOOLEAN

\* ------------------------------------------------------ reading the history
\* how often x occurs in the sequence q
Count(q, x) ==
  Cardinality({i \in DOMAIN q : q[i] = x})

\* the frames of this session that were pulled and not yet returned
Held ==
  {f \in 1..pulled : Count(returns, f) = 0}

\* the indices of the chunks of the wire that failed
FailedWrites ==
  {i \in DOMAIN wire : ~wire[i].ok}

\* the parts of this session whose three chunks were all written
PartsSent ==
  Cardinality({i \in DOMAIN wire : wire[i].seg = "payload" /\ wire[i].ok})

\* position of a segment within its part
SegPos(seg) ==
  CASE seg = "boundary" -> 1
    [] seg = "header" -> 2
    [] seg = "payload" -> 3

\* the handler of this session has returned
Ended ==
  pc = "idle" /\ exitReason # "none"

\* where the header line beginning with key starts in a header block, 0 if
\* there is none
FindLine(bytes, key) ==
  LET at(k) == /\ k + Len(key) - 1 <= Len(bytes)
               /\ SubSeq(bytes, k, k + Len(key) - 1) = key
               /\ (k = 1 \/ (k >= 3 /\ bytes[k - 2] = 13 /\ bytes[k - 1] = 10))
      hits == {k \in 1..Len(bytes) : at(k)}
  IN  IF hits = {} THEN 0 ELSE CHOOSE k \in hits : \A j \in hits : k <= j

RECURSIVE ParseUInt(_, _, _)
\* the decimal number a receiver reads at position k
ParseUInt(bytes, k, acc) ==
  IF k <= Len(bytes) /\ bytes[k] >= 48 /\ bytes[k] <= 57
    THEN ParseUInt(bytes, k + 1, acc * 10 + (bytes[k] - 48))
    ELSE [val |-> acc, next |-> k]

\* the Content-Length a receiver reads from a header block, -1 if it finds
\* no well-formed Content-Length line
ContentLengthOf(bytes) ==
  LET k == FindLine(bytes, StrContentLength)
      r == ParseUInt(bytes, k + Len(StrContentLength), 0)
  IN  IF k = 0 \/ r.next = k + Len(StrContentLength)
         \/ r.next + 1 > Len(bytes)
         \/ bytes[r.next] # 13 \/ bytes[r.next + 1] # 10
        THEN 0 - 1
        ELSE r.val

\* ------------------------------------------------------------------ claims

\* C1: every frame pulled with esp_camera_fb_get is handed to
\* esp_camera_fb_return exactly once before the handler returns or pulls
\* again, on every exit path.  part_000 returns the frame a second time after
\* the loop when the boundary or the header write failed.
C1_ReleasedExactlyOnce ==
  /\ \A f \in 1..pulled : Count(returns, f) <= 1
  /\ \A f \in 1..pulled :
       (f < pulled \/ pc \in {"idle", "check", "get", "delay"})
         => Count(returns, f) = 1

\* C2: a session never holds more than one pulled and not yet returned frame.
C2_AtMostOneInFlight ==
  Cardinality(Held) <= 1

C2_Witness ==
  pulled >= 2 /\ Held = {pulled} /\ pc = "payload"

\* C3: a failed write of a boundary, header or payload chunk is the last
\* write of the session: nothing is written after it, no further frame is
\* pulled, the frame of the part is returned and the handler is on its way
\* out; the failed chunk of part f lies right behind f-1 complete parts and
\* the chunks of part f before it.
C3_WriteFailureEndsSession ==
  \A i \in FailedWrites :
    /\ i = Len(wire)
    /\ pc \in {"closing", "idle"}
    /\ exitReason = "write"
    /\ wire[i].frame = pulled
    /\ Count(returns, wire[i].frame) >= 1
    /\ i = 3 * (wire[i].frame - 1) + SegPos(wire[i].seg)
    /\ \A j \in 1..(i - 1) : wire[j].ok

C3_Witness ==
  /\ Ended
  /\ Len(wire) = 6
  /\ wire[6] = [seg |-> "payload", frame |-> 2, ok |-> FALSE]
  /\ Count(returns, 2) >= 1

\* C4: when esp_camera_fb_get returns no frame the session ends in that
\* iteration.  Program 1 of main.c goes on with the next iteration instead.
C4_NoFrameEndsSession ==
  calls > pulled => (pc \in {"closing", "idle"} /\ exitReason = "capture")

\* C5: the header block of a part carries Content-Length: N with N the
\* length of the frame pulled, and the payload chunk behind it is N bytes
\* long and the last chunk of the part.
C5_ContentLengthExact ==
  \A i \in DOMAIN part :
    /\ part[i].seg = "header" => ContentLengthOf(part[i].bytes) = fb_len
    /\ part[i].seg = "payload" =>
         /\ part[i].len = fb_len
         /\ i = Len(part)
         /\ i > 1
         /\ part[i - 1].seg = "header"
         /\ ContentLengthOf(part[i - 1].bytes) = part[i].len

C5_Witness ==
  /\ Len(part) = 3
  /\ part[3].seg = "payload"
  /\ part[3].len = 1500
  /\ wire[Len(wire)].ok

\* C6: the boundary chunk is exactly the 11 bytes CR LF - - f r a m e CR LF.
\* The handlers of main.c pass the length 12 and send the terminating NUL
\* too, part_000 passes 10 and leaves the last LF out.
C6_BoundaryBytesExact ==
  \A i \in DOMAIN part :
    part[i].seg = "boundary" =>
      /\ part[i].len = 11
      /\ part[i].bytes = << 13, 10, 45, 45, 102, 114, 97, 109, 101, 13, 10 >>

\* C7: the chunks of a session go boundary, header, payload, part after
\* part: the first chunk is a boundary, a header follows the boundary of its
\* frame, a payload the header of its frame, and a boundary the payload of
\* the frame before.
C7_SegmentOrder ==
  \A i \in DOMAIN wire :
    /\ wire[i].frame >= 1
    /\ wire[i].seg = "boundary" =>
         \/ i = 1
         \/ /\ wire[i - 1].seg = "payload"
            /\ wire[i - 1].ok
            /\ wire[i - 1].frame = wire[i].frame - 1
    /\ wire[i].seg = "header" =>
         /\ i > 1
         /\ wire[i - 1] = [seg |-> "boundary", frame |-> wire[i].frame,
                           ok |-> TRUE]
    /\ wire[i].seg = "payload" =>
         /\ i > 1
         /\ wire[i - 1] = [seg |-> "header", frame |-> wire[i].frame,
                           ok |-> TRUE]

C7_Witness ==
  /\ Len(wire) = 6
  /\ \A i \in DOMAIN wire : wire[i].ok

\* C8: frames go out in the order pulled: the frame numbers on the wire never
\* decrease, each frame has at most one payload chunk, and when a further
\* frame has been pulled the payload of every frame before it was written.
C8_PullOrder ==
  /\ \A i, j \in DOMAIN wire : i < j => wire[i].frame <= wire[j].frame
  /\ \A i \in DOMAIN wire : wire[i].frame \in 1..pulled
  /\ \A f \in 1..pulled :
       Cardinality({i \in DOMAIN wire :
                      wire[i].seg = "payload" /\ wire[i].frame = f}) <= 1
  /\ \A f \in 1..(pulled - 1) :
       \E i \in DOMAIN wire :
         wire[i] = [seg |-> "payload", frame |-> f, ok |-> TRUE]

C8_Witness ==
  /\ pulled = 3
  /\ pc = "boundary"
  /\ PartsSent = 2

\* C9: when the liveness check before iteration j reports the peer gone,
\* exactly j-1 parts were sent, j-1 pulls were made and no frame is held.
\* Program 1 of main.c spends iterations on pulls that return no frame.
C9_ProbeExitAfterJMinus1Parts ==
  exitReason = "probe" =>
    /\ PartsSent = iter - 1
    /\ calls = iter - 1
    /\ Held = {}

\* C10: when the source yields k frames and then a failure, every write
\* succeeding and the peer alive, exactly k complete parts were written, the
\* session ends, and the frame counter is k.  Program 1 of main.c neither
\* ends the session nor starts its counter at zero in a later session.
C10_KFramesThenFailure ==
  (calls = pulled + 1 /\ fb = 0 /\ FailedWrites = {} /\ exitReason # "probe")
    => /\ PartsSent = pulled
       /\ Len(wire) = 3 * pulled
       /\ pc \in {"closing", "idle"}
       /\ exitReason = "capture"
       /\ prog = 1 => frame_counter = pulled

\* ---------------------------------------------------- C11, client disconnect

\* a step of a running handler: the httpd task is scheduled again after every
\* blocking call, so a handler that can take a step takes one
HandlerStep ==
  pc # "idle" /\ Next

FairSpec ==
  Spec /\ WF_vars(HandlerStep)

\* C11: once the probe has reported the peer gone or a write has failed, the
\* handler returns, whatever the camera hands out meanwhile.
C11_DisconnectEndsSession ==
  (pc # "idle" /\ (~probe.alive \/ FailedWrites # {})) ~> (pc = "idle")

C11_Witness ==
  /\ pc = "idle"
  /\ ~probe.alive
  /\ calls > pulled
  /\ PartsSent >= 1

\* ------------------------------------------------------ C12, ends of a loop

\* the last thing that happened in the loop of this session is a failure: the
\* probe found the peer gone, a write failed, or a pull returned no frame
LoopFailed ==
  \/ ~probe.alive
  \/ wire # << >> /\ ~wire[Len(wire)].ok
  \/ calls > pulled /\ fb = 0

\* C12: a loop that was entered is left only on a disconnect, a write failure
\* or a capture failure; while pulls, writes and probes succeed the handler
\* stays in the loop.
C12_LoopEndsOnlyOnFailure ==
  (iter >= 1 /\ pc \in {"closing", "idle"}) => LoopFailed

C12_Witness ==
  /\ pc = "idle"
  /\ iter = 3
  /\ PartsSent = 2
  /\ probe.alive
  /\ FailedWrites = {}
  /\ calls = pulled + 1

\* ------------------------------------------------------- C13, content type

\* C13: the content type is set once per session, before any part is written,
\* and when setting it fails the handler returns without a pull and without a
\* write.  Both programs of main.c drop the result of httpd_resp_set_type.
C13_ContentTypeFailureFatal ==
  /\ (pc # "idle" \/ wire # << >>) => Len(typeRes) = 1
  /\ typeRes = << ESP_FAIL >> => (pc = "idle" /\ calls = 0 /\ wire = << >>)

\* ------------------------------------------------------ C14, pacing delay

\* C14: while a session is suspended in the pacing delay it holds no frame.
C14_NoFrameHeldInDelay ==
  pc = "delay" => Held = {}

C14_Witness ==
  /\ pc = "delay"
  /\ pulled = 2
  /\ Len(returns) = 2

\* ------------------------------------------------- C15, per-session counters

\* C15: the frame counter and the FPS window count belong to the session:
\* they start at zero with it and count its iterations only, so the frame
\* number of a part is the number of frames the session has pulled.  In
\* program 1 they are statics that no session resets.
C15_CountersPerSession ==
  (prog = 1 /\ pc # "idle") =>
    /\ frame_counter = pulled
    /\ fps_frame_count <= PartsSent

\* ------------------------------------------------------ C16, liveness probe

\* C16: the probe reports the peer gone exactly when the socket error query
\* failed or returned a pending error, and alive in every other case.
C16_ProbeGoneIffQueryFailsOrError ==
  ~probe.alive <=> (probe.rc # 0 \/ probe.err # 0)

C16_Witness ==
  /\ probe.rc = 0
  /\ probe.err # 0
  /\ ~probe.alive
  /\ exitReason = "probe"
  /\ pc = "idle"

\* ---------------------------------------------------- C17, header overflow

\* A server that has been up for a long time in a configuration with very
\* large frames.  The statics of program 1 are never reset, so frame_counter
\* takes every 32-bit value in turn; fps_frame_count runs on over sessions
\* shorter than the FPS window (each entry moves last_fps_time, main.c 182),
\* so a window that closes after 5 030 000 such frames leaves a current_fps of
\* a million and more; fb->len is a size_t the handlers take as it comes.
LateFrameCounters == {999999999}
\* current_fps in hundredths: 1000000.00 and 10000000.00
LateFps == {100000000, 1000000000}
LateFrameLens == {1000000000}

LateInit ==
  /\ prog \in {1, 2, 3}
  /\ pc = "idle"
  /\ booted = 0
  /\ now \in BootClocks
  /\ fb = 0
  /\ hdr_buf = << >>
  /\ hdr_len = 0
  /\ res = ESP_OK
  /\ frame_counter \in LateFrameCounters
  /\ last_fps_time = U32Of(0)
  /\ fps_frame_count = 0
  /\ current_fps \in LateFps
  /\ iter = 0
  /\ calls = 0
  /\ pulled = 0
  /\ fb_len = 0
  /\ returns = << >>
  /\ wire = << >>
  /\ part = << >>
  /\ typeRes = << >>
  /\ exitReason = "none"
  /\ frame_lens = LateFrameLens
  /\ probe = NoProbe
  /\ yielded = FALSE
  /\ parts_total = 0
  /\ StartupDone

LateSpec ==
  LateInit /\ [][Next]_vars

\* sizeof of the header buffer of the program flashed
BufSize ==
  CASE prog = 1 -> M1_HDR_BUF_SIZE
    [] prog = 2 -> M2_PART_BUF_SIZE
    [] prog = 3 -> P0_PART_BUF_SIZE

\* C17: a header block that does not fit the buffer is not written: no header
\* chunk of a frame is written with a length above what the buffer holds.  No
\* handler looks at the length snprintf returns before it writes the header.
C17_NoOversizedHeaderWrite ==
  \A i \in DOMAIN part :
    part[i].seg = "header" => part[i].len <= BufSize

\* ---------------------------------------------------- C18, defensive release

\* C18: the code after the loop of part_000 releases a frame only if the
\* handler still holds it.  After a failed boundary or header write the frame
\* is released inside the loop and fb keeps pointing at it.
C18_DefensiveReleaseOnlyIfHeld ==
  [][(prog = 3 /\ pc = "closing" /\ returns' # returns) => fb \in Held]_vars

\* -------------------------------------------------------- C19, retry delay

\* C19: in program 1 a pull that follows a pull without a frame happens only
\* after the task was suspended in between.  `continue` at main.c 189 leads
\* to the probe and the next pull with no vTaskDelay on the way.
C19_RetryAfterDelay ==
  [][(prog = 1 /\ calls' = calls + 1 /\ calls > 0 /\ fb = 0) => yielded]_vars

\* -------------------------------------------------------- C20, frames sent

\* C20: the frame counter of program 1, logged as 'Frames sent', is the
\* number of parts whose three segments were all written; stated here for the
\* moments when no part is under way.  main.c 190 counts the frame when it is
\* pulled, so a part whose write failed is counted too.
C20_CounterIsPartsSent ==
  (prog = 1 /\ pc \in {"idle", "check", "delay", "closing"})
    => frame_counter = parts_total

\* ------------------------------------------------------- C21, FPS window

\* a 32-bit value below 2^31 as a number
U32Val(a) ==
  a.hi * 65536 + a.lo

\* h is c * 1000 / e frames per second, in hundredths, to the nearest
RateIs(h, c, e) ==
  LET d == h * e - c * 100000
  IN  2 * d <= e /\ 0 - 2 * d <= e

\* C21: a call of calculate_fps counts one frame; when 5000 ms or more, taken
\* modulo 2^32, have passed since the window start it sets the estimate to
\* frames counted * 1000 / ms passed, the count to 0 and the window start to
\* now, dividing by a value that is not zero; otherwise it changes the count
\* only.
C21_FpsWindow ==
  [][(prog = 1 /\ pc = "payload" /\ pc' = "delay") =>
       LET e == U32Sub(now, last_fps_time)
       IN  IF e.hi > 0 \/ e.lo >= 5000
             THEN /\ U32Val(e) # 0
                  /\ RateIs(current_fps', fps_frame_count + 1, U32Val(e))
                  /\ fps_frame_count' = 0
                  /\ last_fps_time' = now
             ELSE /\ fps_frame_count' = fps_frame_count + 1
                  /\ current_fps' = current_fps
                  /\ last_fps_time' = last_fps_time]_vars

\* a window that began before the 32-bit clock wrapped was closed after it
C21_Witness ==
  /\ prog = 1
  /\ pc = "delay"
  /\ last_fps_time = now
  /\ now.hi = 0
  /\ now.lo > 0
  /\ now.lo < 5000
  /\ fps_frame_count = 0
  /\ current_fps > 0

\* ------------------------------------------------------ C22, header length

\* Program 1 after 5 030 000 frames were sent in sessions that each ended
\* before the FPS window of 5000 ms was over: stream_handler moves
\* last_fps_time at every entry (main.c 182) and nothing but a closed window
\* resets fps_frame_count, so the count of the open window is that of all of
\* them.  Frame counter and frame length as in LateInit.
AgedFpsCounts == {5030000}

AgedInit ==
  /\ prog \in {1, 2, 3}
  /\ pc = "idle"
  /\ booted = 0
  /\ now \in BootClocks
  /\ fb = 0
  /\ hdr_buf = << >>
  /\ hdr_len = 0
  /\ res = ESP_OK
  /\ frame_counter \in LateFrameCounters
  /\ last_fps_time = U32Of(0)
  /\ fps_frame_count \in AgedFpsCounts
  /\ current_fps = 0
  /\ iter = 0
  /\ calls = 0
  /\ pulled = 0
  /\ fb_len = 0
  /\ returns = << >>
  /\ wire = << >>
  /\ part = << >>
  /\ typeRes = << >>
  /\ exitReason = "none"
  /\ frame_lens = LateFrameLens
  /\ probe = NoProbe
  /\ yielded = FALSE
  /\ parts_total = 0
  /\ StartupDone

AgedSpec ==
  AgedInit /\ [][Next]_vars

\* C22: the length of every header chunk handed to the transport is below
\* the size of the header buffer, so the text was not truncated and the write
\* stays inside the buffer.  In program 1 four ten-digit values and an FPS
\* value of a million give a text of 128 characters.
C22_HeaderFitsBuffer ==
  \A i \in DOMAIN part :
    part[i].seg = "header" => part[i].len < BufSize

\* ------------------------------------------------- startup, programs 1 and 2

\* Wi-Fi and IP events the model follows after boot
MaxEvents == 4

\* passes of the wait loops of app_main
M1_WIFI_WAIT == 60
M2_WIFI_WAIT == 20

\* app_main has returned from wifi_init(): esp_wifi_start() was called, no
\* event was handled yet, no stream session exists
StartInit ==
  /\ prog \in {1, 2}
  /\ pc = "idle"
  /\ booted = 0
  /\ now \in BootClocks
  /\ fb = 0
  /\ hdr_buf = << >>
  /\ hdr_len = 0
  /\ res = ESP_OK
  /\ frame_counter = 0
  /\ last_fps_time = U32Of(0)
  /\ fps_frame_count = 0
  /\ current_fps = 0
  /\ iter = 0
  /\ calls = 0
  /\ pulled = 0
  /\ fb_len = 0
  /\ returns = << >>
  /\ wire = << >>
  /\ part = << >>
  /\ typeRes = << >>
  /\ exitReason = "none"
  /\ frame_lens = FrameLens
  /\ probe = NoProbe
  /\ yielded = FALSE
  /\ parts_total = 0
  /\ wifi_connected = FALSE
  /\ app = "loop"
  /\ wait_i = 0
  /\ sta = "started"
  /\ polls = 0
  /\ observed = FALSE
  /\ events = 0
  /\ mdns_inits = 0
  /\ camera_calls = 0
  /\ server_started = FALSE

\* ---- wifi_event_handler of program 1; the event task runs one handler at
\* a time, from its first line to its last

\* WIFI_EVENT_STA_START: esp_wifi_connect()
M1_wifi_sta_start ==
  /\ prog = 1
  /\ sta = "started"
  /\ events < MaxEvents
  /\ events' = events + 1
  /\ sta' = "connecting"
  /\ UNCHANGED << wifi_connected, app, wait_i, polls, observed, mdns_inits,
                  camera_calls, server_started >>
  /\ UNCHANGED << config, streaming >>

\* IP_EVENT_STA_GOT_IP: wifi_connected = true; mdns_init_service()
M1_wifi_got_ip ==
  /\ prog = 1
  /\ sta = "connecting"
  /\ events < MaxEvents
  /\ events' = events + 1
  /\ wifi_connected' = TRUE
  /\ mdns_inits' = mdns_inits + 1
  /\ sta' = "up"
  /\ UNCHANGED << app, wait_i, polls, observed, camera_calls, server_started >>
  /\ UNCHANGED << config, streaming >>

\* WIFI_EVENT_STA_DISCONNECTED, after a failed attempt or a lost
\* association: wifi_connected = false; esp_wifi_connect()
M1_wifi_disconnected ==
  /\ prog = 1
  /\ sta \in {"connecting", "up"}
  /\ events < MaxEvents
  /\ events' = events + 1
  /\ wifi_connected' = FALSE
  /\ sta' = "connecting"
  /\ UNCHANGED << app, wait_i, polls, observed, mdns_inits, camera_calls,
                  server_started >>
  /\ UNCHANGED << config, streaming >>

\* ---- app_main of program 1, from the wait loop on

\* the test of the wait loop: i < 60 && !wifi_connected
M1_app_wait ==
  /\ prog = 1
  /\ app = "loop"
  /\ IF wait_i < M1_WIFI_WAIT
       THEN /\ polls' = polls + 1
            /\ observed' = wifi_connected
            /\ app' = IF wifi_connected THEN "decide" ELSE "delay"
       ELSE /\ app' = "decide"
            /\ UNCHANGED << polls, observed >>
  /\ UNCHANGED << wifi_connected, wait_i, sta, events, mdns_inits,
                  camera_calls, server_started >>
  /\ UNCHANGED << config, streaming >>

\* vTaskDelay(500 ms); i++
M1_app_delay ==
  /\ prog = 1
  /\ app = "delay"
  /\ wait_i' = wait_i + 1
  /\ app' = "loop"
  /\ UNCHANGED << wifi_connected, sta, polls, observed, events, mdns_inits,
                  camera_calls, server_started >>
  /\ UNCHANGED << config, streaming >>

\* ESP_ERROR_CHECK(camera_init()); start_webserver(); whatever the flag says
M1_app_start ==
  /\ prog = 1
  /\ app = "decide"
  /\ camera_calls' = camera_calls + 1
  /\ \E cam \in {ESP_OK, ESP_FAIL}, srv \in {ESP_OK, ESP_FAIL} :
       IF cam # ESP_OK
         THEN app' = "aborted" /\ UNCHANGED server_started
         ELSE app' = "serve" /\ server_started' = (srv = ESP_OK)
  /\ UNCHANGED << wifi_connected, wait_i, sta, polls, observed, events,
                  mdns_inits >>
  /\ UNCHANGED << config, streaming >>

\* ---- wifi_event_handler of program 2

\* WIFI_EVENT_STA_START: esp_wifi_connect()
M2_wifi_sta_start ==
  /\ prog = 2
  /\ sta = "started"
  /\ events < MaxEvents
  /\ events' = events + 1
  /\ sta' = "connecting"
  /\ UNCHANGED << wifi_connected, app, wait_i, polls, observed, mdns_inits,
                  camera_calls, server_started >>
  /\ UNCHANGED << config, streaming >>

\* IP_EVENT_STA_GOT_IP: wifi_connected = true
M2_wifi_got_ip ==
  /\ prog = 2
  /\ sta = "connecting"
  /\ events < MaxEvents
  /\ events' = events + 1
  /\ wifi_connected' = TRUE
  /\ sta' = "up"
  /\ UNCHANGED << app, wait_i, polls, observed, mdns_inits, camera_calls,
                  server_started >>
  /\ UNCHANGED << config, streaming >>

\* WIFI_EVENT_STA_DISCONNECTED: esp_wifi_connect(); wifi_connected = false
M2_wifi_disconnected ==
  /\ prog = 2
  /\ sta \in {"connecting", "up"}
  /\ events < MaxEvents
  /\ events' = events + 1
  /\ wifi_connected' = FALSE
  /\ sta' = "connecting"
  /\ UNCHANGED << app, wait_i, polls, observed, mdns_inits, camera_calls,
                  server_started >>
  /\ UNCHANGED << config, streaming >>

\* ---- app_main of program 2, from the wait loop on

\* the test of the wait loop: i < 20 && !wifi_connected
M2_app_wait ==
  /\ prog = 2
  /\ app = "loop"
  /\ IF wait_i < M2_WIFI_WAIT
       THEN /\ polls' = polls + 1
            /\ observed' = wifi_connected
            /\ app' = IF wifi_connected THEN "decide" ELSE "delay"
       ELSE /\ app' = "decide"
            /\ UNCHANGED << polls, observed >>
  /\ UNCHANGED << wifi_connected, wait_i, sta, events, mdns_inits,
                  camera_calls, server_started >>
  /\ UNCHANGED << config, streaming >>

\* vTaskDelay(500 ms); ++i
M2_app_delay ==
  /\ prog = 2
  /\ app = "delay"
  /\ wait_i' = wait_i + 1
  /\ app' = "loop"
  /\ UNCHANGED << wifi_connected, sta, polls, observed, events, mdns_inits,
                  camera_calls, server_started >>
  /\ UNCHANGED << config, streaming >>

\* app_main of program 2 going on after the wait loop whatever the flag says
M2_app_decide_anyway ==
  /\ prog = 2
  /\ app = "decide"
  /\ camera_calls' = camera_calls + 1
  /\ \E cam \in {ESP_OK, ESP_FAIL}, srv \in {ESP_OK, ESP_FAIL} :
       IF cam # ESP_OK
         THEN app' = "aborted" /\ UNCHANGED server_started
         ELSE app' = "serve" /\ server_started' = (srv = ESP_OK)
  /\ UNCHANGED << wifi_connected, wait_i, sta, polls, observed, events,
                  mdns_inits >>
  /\ UNCHANGED << config, streaming >>

\* if (!wifi_connected) return; ESP_ERROR_CHECK(camera_init());
\* start_webserver();
M2_app_decide ==
  /\ prog = 2
  /\ app = "decide"
  /\ observed' = wifi_connected
  /\ IF ~wifi_connected
       THEN /\ app' = "returned"
            /\ UNCHANGED << camera_calls, server_started >>
       ELSE /\ camera_calls' = camera_calls + 1
            /\ \E cam \in {ESP_OK, ESP_FAIL}, srv \in {ESP_OK, ESP_FAIL} :
                 IF cam # ESP_OK
                   THEN app' = "aborted" /\ UNCHANGED server_started
                   ELSE app' = "serve" /\ server_started' = (srv = ESP_OK)
  /\ UNCHANGED << wifi_connected, wait_i, sta, polls, events, mdns_inits >>
  /\ UNCHANGED << config, streaming >>

StartNext ==
  \/ M1_wifi_sta_start
  \/ M1_wifi_got_ip
  \/ M1_wifi_disconnected
  \/ M1_app_wait
  \/ M1_app_delay
  \/ M1_app_start
  \/ M2_wifi_sta_start
  \/ M2_wifi_got_ip
  \/ M2_wifi_disconnected
  \/ M2_app_wait
  \/ M2_app_delay
  \/ M2_app_decide

StartSpec ==
  StartInit /\ [][StartNext]_vars

\* --------------------------------------------------- C23, waiting for Wi-Fi

\* C23: app_main of program 2 reads the flag in its wait loop at most 20
\* times; it calls camera_init and starts the server only after reading the
\* flag as true, and once it has read it as false after the loop it returns
\* with neither done.
C23_StartOnlyWhenConnected ==
  prog = 2 =>
    /\ polls <= 20
    /\ (camera_calls > 0 \/ server_started) => observed
    /\ (app \in {"serve", "aborted", "returned"} /\ ~observed)
         => (app = "returned" /\ camera_calls = 0 /\ ~server_started)

\* the wait ran out and app_main gave up
C23_Witness ==
  /\ prog = 2
  /\ app = "returned"
  /\ wait_i = 20
  /\ polls = 20
  /\ events >= 1
  /\ camera_calls = 0
  /\ ~server_started

\* ------------------------------------------------------------ C24, mDNS

\* C24: program 1 runs mdns_init_service at most once per boot, whatever
\* events arrive.  Its handler runs it on every IP_EVENT_STA_GOT_IP, and one
\* follows each reconnect after a WIFI_EVENT_STA_DISCONNECTED.
C24_MdnsInitAtMostOnce ==
  prog = 1 => mdns_inits <= 1

====
